---- MODULE Spec2Model ----
\* A01Store: the Run/Task store (src/services/store/app/main.py), its auth
\* wrapper and key cache, and the worker loop of src/test/test_parallel.py.
EXTENDS Integers, Sequences, FiniteSets, TLC

VARIABLES
    runs,         \* table run:  id -> row
    tasks,        \* table task: id -> row
    run_seq,      \* last value of the run.id sequence
    task_seq,     \* last value of the task.id sequence
    resp,         \* the response to the last request served
    certs,        \* AzureADPublicKeysManager._certs (the key ids held)
    last_update,  \* AzureADPublicKeysManager._last_update
    now,          \* datetime.utcnow(), in hours
    pc,           \* test_parallel.py: each worker's position in checkout_task
    held,         \* test_parallel.py: the response each worker holds (resp)
    calls,        \* every checkout response, in the order they were served
    tasks0        \* the task table when the workers were started

vars == <<runs, tasks, run_seq, task_seq, resp, certs, last_update, now,
          pc, held, calls, tasks0>>

store == <<runs, tasks, run_seq, task_seq>>
cache == <<certs, last_update>>
pool == <<pc, held, calls, tasks0>>

-----------------------------------------------------------------------------
\* Bounds of the model.

MaxRunId == 2       \* run ids 1..MaxRunId
MaxTaskId == 2      \* task ids 1..MaxTaskId in the store specification
MaxBatch == 2       \* longest batch given to post_tasks
MaxPatchLen == 2    \* most keys in one patch payload
MaxPoolTasks == 3   \* tasks in the table when the workers start
MaxNow == 24        \* the clock stops here
TickHours == 6      \* the clock's step
MaxCalls == 1       \* other clients call checkout while fewer calls were served
MaxThreads == 2     \* threads of the server inside get_public_key

-----------------------------------------------------------------------------
\* Program constants.

RefreshHours == 12
DatetimeMin == -17000000
NumWorkers == 3
RunUnderTest == 5

INTERNAL_COMMUNICATION_KEY == "comkey"

-----------------------------------------------------------------------------
\* JSON values as request bodies carry them: a type tag, a text (the string
\* itself, or the name of a dictionary or list of the universe below) and a
\* number.

Null == [t |-> "null", s |-> "", n |-> 0]
Str(s) == [t |-> "str", s |-> s, n |-> 0]
Num(n) == [t |-> "int", s |-> "", n |-> n]
Dict(name) == [t |-> "dict", s |-> name, n |-> 0]
List(name) == [t |-> "list", s |-> name, n |-> 0]

\* A payload (a JSON object) is a sequence of key/value pairs with distinct
\* keys, in the order the body gives them.
Pair(k, v) == [key |-> k, value |-> v]

Has(data, k) == \E i \in 1..Len(data) : data[i].key = k

Get(data, k) == data[CHOOSE i \in 1..Len(data) : data[i].key = k].value

GetOr(data, k, default) == IF Has(data, k) THEN Get(data, k) ELSE default

\* The dictionaries of the universe, by name: the keys each holds.
DictKeys(name) ==
    CASE name = "details_new" -> {"a01.reserved.creator", "a01.reserved.client"}
      [] name = "details_old" -> {"a01.reserved.creator", "a01.reserved.client"}
      [] name = "details_v1" -> {"a01.reserved.creator", "a01.reserved.client"}
      [] name = "details_nocreator" -> {"a01.reserved.client"}
      [] name = "details_noclient" -> {"a01.reserved.creator"}
      [] name = "k1" -> {"k"}
      [] OTHER -> {}

\* data['details']['a01.reserved.client'].split(' ')[1], parsed as a version.
ClientVersion(name) ==
    CASE name = "details_new" -> <<0, 15, 0>>
      [] name = "details_old" -> <<0, 14, 9>>
      [] name = "details_v1" -> <<1, 0, 0>>
      [] name = "details_nocreator" -> <<0, 15, 0>>
      [] OTHER -> <<0, 0, 0>>

\* json.dumps of a dictionary of the universe.
json_dumps(d) ==
    CASE d.s = "details_new" ->
           "{\"a01.reserved.creator\": \"u\", \"a01.reserved.client\": \"A01 0.15.0\"}"
      [] d.s = "details_old" ->
           "{\"a01.reserved.creator\": \"u\", \"a01.reserved.client\": \"A01 0.14.9\"}"
      [] d.s = "details_v1" ->
           "{\"a01.reserved.creator\": \"u\", \"a01.reserved.client\": \"A01 1.0.0\"}"
      [] d.s = "details_nocreator" -> "{\"a01.reserved.client\": \"A01 0.15.0\"}"
      [] d.s = "details_noclient" -> "{\"a01.reserved.creator\": \"u\"}"
      [] d.s = "k1" -> "{\"k\": 1}"
      [] OTHER -> "{}"

Digits == <<"0", "1", "2", "3", "4", "5", "6", "7", "8", "9">>

\* str() of a value that is no dictionary (numbers are 0..9 in this model).
str(data) ==
    CASE data.t = "str" -> data.s
      [] data.t = "int" -> Digits[data.n + 1]
      [] data.t = "list" -> data.s
      [] OTHER -> "None"

_unify_json_input(data) ==
    IF data.t = "null" THEN Null
    ELSE IF data.t = "dict" THEN Str(json_dumps(data))
    ELSE Str(str(data))

\* The dictionaries of the universe.
DictNames == {"details_new", "details_old", "details_v1", "details_nocreator",
              "details_noclient", "k1"}

\* json.loads(text): the value a text of the universe parses to, or the
\* JSONDecodeError it raises.
json_loads(text) ==
    IF \E d \in DictNames : json_dumps(Dict(d)) = text
    THEN [ok |-> TRUE, value |-> Dict(CHOOSE d \in DictNames : json_dumps(Dict(d)) = text)]
    ELSE IF \E n \in 0..9 : Digits[n + 1] = text
    THEN [ok |-> TRUE, value |-> Num(CHOOSE n \in 0..9 : Digits[n + 1] = text)]
    ELSE IF text = "[]"
    THEN [ok |-> TRUE, value |-> List("[]")]
    ELSE [ok |-> FALSE, value |-> Null]

\* (An output that has nothing to give for a text that does not parse.)
_unify_json_output_or_none(data) ==
    IF data.t = "null" THEN Null
    ELSE IF data.t # "str" THEN data
    ELSE IF json_loads(data.s).ok THEN json_loads(data.s).value
    ELSE Null

\* _unify_json_output: json.loads, or the data itself on JSONDecodeError and
\* TypeError.
_unify_json_output(data) ==
    IF data.t = "null" THEN Null
    ELSE IF data.t # "str" THEN data
    ELSE IF json_loads(data.s).ok THEN json_loads(data.s).value
    ELSE data

-----------------------------------------------------------------------------
\* The Authorization header of a request. raw is the header's text; hdr, kid
\* and verdict say how that text fares as a signed token: how its first
\* segment decodes, the key id it names, and what jwt.decode makes of it.

Cred(present, raw, hdr, kid, verdict) ==
    [present |-> present, raw |-> raw, hdr |-> hdr, kid |-> kid, verdict |-> verdict]

NoHeader == Cred(FALSE, "", "none", "none", "none")

InternalCred == Cred(TRUE, INTERNAL_COMMUNICATION_KEY, "badb64", "none", "none")

Kids == {"kidA", "kidB"}

Tokens ==
    {Cred(TRUE, "token", h, "none", "none") : h \in {"badb64", "badutf8", "badjson", "nokid"}}
    \cup {Cred(TRUE, "token", "ok", k, v) :
             k \in Kids, v \in {"valid", "expired", "invalid"}}

Credentials == {NoHeader, InternalCred} \cup Tokens

\* What the identity provider answers to requests.get(jwks_uri): a key set, or
\* no answer (the call raises).
Fetches == {[ok |-> TRUE, keys |-> K] : K \in SUBSET Kids}
           \cup {[ok |-> FALSE, keys |-> {}]}

NoFetch == [ok |-> FALSE, keys |-> {}]

\* (A refresh after more than 12 hours only.)
RefreshDueStrict == now - last_update > RefreshHours

\* _refresh_certs: is a refresh due.
RefreshDue == now - last_update >= RefreshHours

\* get_public_key(key_id) in one step: the cache after it, and how it ended
\* ("key", "KeyError" or "RequestException").
get_public_key(key_id, fetch) ==
    IF RefreshDue
    THEN IF fetch.ok
         THEN [certs |-> fetch.keys, last_update |-> now,
               end |-> IF key_id \in fetch.keys THEN "key" ELSE "KeyError"]
         ELSE [certs |-> {}, last_update |-> last_update, end |-> "RequestException"]
    ELSE [certs |-> certs, last_update |-> last_update,
          end |-> IF key_id \in certs THEN "key" ELSE "KeyError"]

\* get_id_token_payload(id_token): the cache after it, and how it ended.
get_id_token_payload(cred, fetch) ==
    LET same(end) == [certs |-> certs, last_update |-> last_update, end |-> end]
    IN  CASE cred.hdr = "badb64" -> same("binascii.Error")
          [] cred.hdr = "badutf8" -> same("UnicodeDecodeError")
          [] cred.hdr = "badjson" -> same("JSONDecodeError")
          [] cred.hdr = "nokid" -> same("KeyError")
          [] OTHER ->
               LET k == get_public_key(cred.kid, fetch)
               IN  IF k.end # "key" THEN k
                   ELSE [k EXCEPT !.end =
                           CASE cred.verdict = "valid" -> "payload"
                             [] cred.verdict = "expired" -> "ExpiredSignatureError"
                             [] OTHER -> "InvalidTokenError"]

\* (A wrapper that decodes every header it is given.)
auth_decodes_all(cred, fetch) ==
    LET p == get_id_token_payload(cred, fetch)
        out(pass, code, error) ==
            [certs |-> p.certs, last_update |-> p.last_update,
             pass |-> pass, code |-> code, error |-> error]
    IN  IF ~cred.present
        THEN [certs |-> certs, last_update |-> last_update,
              pass |-> FALSE, code |-> 401, error |-> "Unauthorized"]
        ELSE CASE p.end = "payload" -> out(TRUE, 200, "")
               [] p.end = "KeyError" -> out(FALSE, 401, "Unauthorized")
               [] p.end = "ExpiredSignatureError" -> out(FALSE, 401, "Expired")
               [] p.end = "UnicodeDecodeError" -> out(FALSE, 400, "Bad Request")
               [] OTHER -> out(FALSE, 500, p.end)

\* The auth wrapper up to the call of fn: the cache after it, whether fn is
\* called, and the response when it is not.
auth(cred, fetch) ==
    LET same(pass, code, error) ==
            [certs |-> certs, last_update |-> last_update,
             pass |-> pass, code |-> code, error |-> error]
    IN  IF ~cred.present THEN same(FALSE, 401, "Unauthorized")
        ELSE IF cred.raw = INTERNAL_COMMUNICATION_KEY THEN same(TRUE, 200, "")
        ELSE LET p == get_id_token_payload(cred, fetch)
                 out(pass, code, error) ==
                     [certs |-> p.certs, last_update |-> p.last_update,
                      pass |-> pass, code |-> code, error |-> error]
             IN  CASE p.end = "payload" -> out(TRUE, 200, "")
                   [] p.end = "KeyError" -> out(FALSE, 401, "Unauthorized")
                   [] p.end = "ExpiredSignatureError" -> out(FALSE, 401, "Expired")
                   [] p.end = "UnicodeDecodeError" -> out(FALSE, 400, "Bad Request")
                   [] OTHER -> out(FALSE, 500, p.end)

-----------------------------------------------------------------------------
\* Responses. body says what the response carries ("digest", "list", a
\* status word, or the error's name); id is the id in a digest (0: none).

Response(op, code, body, id) == [op |-> op, code |-> code, body |-> body, id |-> id]

NoResponse == Response("", 0, "", 0)

\* The wrapper's part of every protected route: the cache as the wrapper
\* leaves it.
Gate(a) == /\ certs' = a.certs
           /\ last_update' = a.last_update

\* The wrapper answers itself and fn is not called.
Reject(op, a) == /\ resp' = Response(op, a.code, a.error, 0)
                 /\ UNCHANGED store

\* An exception leaves the handler: the session is dropped, nothing is
\* committed, and the framework answers 500.
Raise(op, exception) == resp' = Response(op, 500, exception, 0)

-----------------------------------------------------------------------------
\* class Run

NewRun == [name |-> Null, owner |-> Null, settings |-> Null, details |-> Null,
           creation |-> 0, status |-> Null]

\* (An update that takes settings from the payload too.)
Run_update_settings(self, data) ==
    [self EXCEPT
        !.name = IF Has(data, "name") THEN Get(data, "name") ELSE @,
        !.owner = IF Has(data, "owner") THEN Get(data, "owner") ELSE @,
        !.details = IF Has(data, "details")
                    THEN _unify_json_input(Get(data, "details")) ELSE @,
        !.settings = IF Has(data, "settings")
                     THEN _unify_json_input(Get(data, "settings")) ELSE @,
        !.status = IF Has(data, "status") THEN Get(data, "status") ELSE @]

Run_update(self, data) ==
    [self EXCEPT
        !.name = IF Has(data, "name") THEN Get(data, "name") ELSE @,
        !.owner = IF Has(data, "owner") THEN Get(data, "owner") ELSE @,
        !.details = IF Has(data, "details")
                    THEN _unify_json_input(Get(data, "details")) ELSE @,
        !.status = IF Has(data, "status") THEN Get(data, "status") ELSE @]

Run_create(data) ==
    [Run_update(NewRun, data) EXCEPT
        !.settings = _unify_json_input(GetOr(data, "settings", Null)),
        !.creation = now]

\* Run.digest: what a reader of the run gets.
Run_digest(id, self) ==
    [id |-> id, name |-> self.name, owner |-> self.owner, status |-> self.status,
     creation |-> self.creation,
     details |-> _unify_json_output(self.details),
     settings |-> _unify_json_output(self.settings)]

-----------------------------------------------------------------------------
\* class Task

TaskColumns == {"id", "name", "annotation", "settings", "status",
                "result_details", "result", "duration", "run_id"}

\* (A set that holds status too.)
immutable_properties_and_status == {"name", "id", "annotation", "run_id", "status"}

immutable_properties == {"name", "id", "annotation", "run_id"}

\* hasattr(self, key), for the keys the payloads of this model use: the
\* columns, the class attribute immutable_properties and the method digest.
hasattr(key) == key \in TaskColumns \cup {"immutable_properties", "digest"}

\* (A load that leaves the status of a payload without one unset.)
Task_load_no_default(data, run_id) ==
    [name |-> Get(data, "name"),
     settings |-> _unify_json_input(GetOr(data, "settings", Null)),
     annotation |-> GetOr(data, "annotation", Null),
     status |-> GetOr(data, "status", Null),
     duration |-> GetOr(data, "duration", Null),
     result |-> GetOr(data, "result", Null),
     result_details |-> _unify_json_input(GetOr(data, "result_details", Null)),
     run_id |-> run_id]

\* Task.load: the row of a new task of run run_id (data has a name).
Task_load(data, run_id) ==
    [name |-> Get(data, "name"),
     settings |-> _unify_json_input(GetOr(data, "settings", Null)),
     annotation |-> GetOr(data, "annotation", Null),
     status |-> GetOr(data, "status", Str("initialized")),
     duration |-> GetOr(data, "duration", Null),
     result |-> GetOr(data, "result", Null),
     result_details |-> _unify_json_input(GetOr(data, "result_details", Null)),
     run_id |-> run_id]

\* What task.digest is while no instance attribute hides the method.
Method == [t |-> "method", s |-> "", n |-> 0]

\* The Task object a request loads for row id: its column attributes, and
\* immutable_properties and digest as the instance sees them (the class
\* attributes).
TaskObject(id) ==
    [id |-> Num(id), name |-> tasks[id].name, annotation |-> tasks[id].annotation,
     settings |-> tasks[id].settings, status |-> tasks[id].status,
     result_details |-> tasks[id].result_details, result |-> tasks[id].result,
     duration |-> tasks[id].duration, run_id |-> Num(tasks[id].run_id),
     immutable_properties |-> immutable_properties, digest |-> Method]

\* The strings a list of the universe holds ('key in value').
ListMembers(value) ==
    CASE value.s = "['status']" -> {"status"}
      [] OTHER -> {}

\* setattr(self, key, value). An instance attribute immutable_properties or
\* digest hides the class attribute for the rest of the request.
setattr(self, key, value) ==
    IF key = "immutable_properties"
    THEN [self EXCEPT !.immutable_properties = ListMembers(value)]
    ELSE [self EXCEPT ![key] = value]

\* One turn of the loop of Task.patch.
PatchKey(self, key, value) ==
    IF key \in self.immutable_properties THEN self
    ELSE IF hasattr(key)
         THEN IF key = "settings" \/ key = "result_details"
              THEN setattr(self, key, _unify_json_input(value))
              ELSE setattr(self, key, value)
         ELSE self

RECURSIVE PatchFrom(_, _, _)
PatchFrom(self, data, i) ==
    IF i > Len(data) THEN self
    ELSE PatchFrom(PatchKey(self, data[i].key, data[i].value), data, i + 1)

Task_patch(self, data) == PatchFrom(self, data, 1)

\* The row an object is written back as.
TaskRow(self) ==
    [name |-> self.name, annotation |-> self.annotation, settings |-> self.settings,
     status |-> self.status, result_details |-> self.result_details,
     result |-> self.result, duration |-> self.duration, run_id |-> self.run_id.n]

\* Task.digest: what a reader of the task gets.
Task_digest(id, self) ==
    [id |-> id, name |-> self.name,
     settings |-> _unify_json_output(self.settings),
     annotation |-> self.annotation, status |-> self.status,
     duration |-> self.duration, result |-> self.result,
     result_details |-> _unify_json_output(self.result_details),
     run_id |-> self.run_id]

-----------------------------------------------------------------------------
\* Run routes. Every route is the auth wrapper followed by the handler.

MinClientVersion == <<0, 15, 0>>

\* (A comparison that takes each number on its own.)
VersionLessAnyPart(a, b) == a[1] < b[1] \/ a[2] < b[2] \/ a[3] < b[3]

\* version.parse(a) < version.parse(b), for release versions of three numbers.
VersionLess(a, b) ==
    \/ a[1] < b[1]
    \/ a[1] = b[1] /\ a[2] < b[2]
    \/ a[1] = b[1] /\ a[2] = b[2] /\ a[3] < b[3]

\* The tasks of a run (run.tasks).
TasksOf(run_id) == {t \in DOMAIN tasks : tasks[t].run_id = run_id}

\* GET /api/runs
get_runs(cred, fetch) ==
    LET a == auth(cred, fetch)
    IN  /\ Gate(a)
        /\ IF ~a.pass THEN Reject("get_runs", a)
           ELSE /\ resp' = Response("get_runs", 200, "list", 0)
                /\ UNCHANGED store
        /\ UNCHANGED <<now, pool>>

\* POST /api/run  (details, when given, is a dictionary)
post_run(cred, fetch, data) ==
    LET a == auth(cred, fetch)
        id == run_seq + 1
        bad(error) == /\ resp' = Response("post_run", 400, error, 0)
                      /\ UNCHANGED store
    IN  /\ run_seq < MaxRunId
        /\ Gate(a)
        /\ IF ~a.pass THEN Reject("post_run", a)
           ELSE IF ~Has(data, "details") THEN bad("misses details")
           ELSE IF "a01.reserved.creator" \notin DictKeys(Get(data, "details").s)
                THEN bad("creator is missing")
           ELSE IF "a01.reserved.client" \notin DictKeys(Get(data, "details").s)
                THEN bad("client is missing")
           ELSE IF VersionLess(ClientVersion(Get(data, "details").s), MinClientVersion)
                THEN bad("minimal client requirement")
           ELSE /\ runs' = (id :> Run_create(data)) @@ runs
                /\ run_seq' = id
                /\ resp' = Response("post_run", 200, "digest", id)
                /\ UNCHANGED <<tasks, task_seq>>
        /\ UNCHANGED <<now, pool>>

\* POST /api/run/<run_id>
update_run(cred, fetch, run_id, data) ==
    LET a == auth(cred, fetch)
    IN  /\ Gate(a)
        /\ IF ~a.pass THEN Reject("update_run", a)
           ELSE IF run_id \notin DOMAIN runs
                THEN /\ resp' = Response("update_run", 404, "Not Found", 0)
                     /\ UNCHANGED store
           ELSE /\ runs' = [runs EXCEPT ![run_id] = Run_update(@, data)]
                /\ resp' = Response("update_run", 200, "digest", run_id)
                /\ UNCHANGED <<tasks, run_seq, task_seq>>
        /\ UNCHANGED <<now, pool>>

\* GET /api/run/<run_id>
get_run(cred, fetch, run_id) ==
    LET a == auth(cred, fetch)
    IN  /\ Gate(a)
        /\ IF ~a.pass THEN Reject("get_run", a)
           ELSE /\ resp' = IF run_id \in DOMAIN runs
                           THEN Response("get_run", 200, "digest", run_id)
                           ELSE Response("get_run", 404, "Not Found", 0)
                /\ UNCHANGED store
        /\ UNCHANGED <<now, pool>>

\* The rows left of a table when the rows of gone are deleted.
Without(table, gone) == [k \in DOMAIN table \ gone |-> table[k]]

\* (A delete that reports a run it does not find.)
delete_run_or_404(cred, fetch, run_id) ==
    LET a == auth(cred, fetch)
    IN  /\ Gate(a)
        /\ IF ~a.pass THEN Reject("delete_run", a)
           ELSE IF run_id \in DOMAIN runs
                THEN /\ runs' = Without(runs, {run_id})
                     /\ tasks' = Without(tasks, TasksOf(run_id))
                     /\ resp' = Response("delete_run", 200, "removed", 0)
                     /\ UNCHANGED <<run_seq, task_seq>>
           ELSE /\ resp' = Response("delete_run", 404, "Not Found", 0)
                /\ UNCHANGED store
        /\ UNCHANGED <<now, pool>>

\* DELETE /api/run/<run_id>  (run.tasks cascades: all, delete-orphan)
delete_run(cred, fetch, run_id) ==
    LET a == auth(cred, fetch)
    IN  /\ Gate(a)
        /\ IF ~a.pass THEN Reject("delete_run", a)
           ELSE IF run_id \in DOMAIN runs
                THEN /\ runs' = Without(runs, {run_id})
                     /\ tasks' = Without(tasks, TasksOf(run_id))
                     /\ resp' = Response("delete_run", 200, "removed", 0)
                     /\ UNCHANGED <<run_seq, task_seq>>
           ELSE /\ resp' = Response("delete_run", 200, "no action", 0)
                /\ UNCHANGED store
        /\ UNCHANGED <<now, pool>>

-----------------------------------------------------------------------------
\* Task routes.

\* GET /api/run/<run_id>/tasks
get_tasks(cred, fetch, run_id) ==
    LET a == auth(cred, fetch)
    IN  /\ Gate(a)
        /\ IF ~a.pass THEN Reject("get_tasks", a)
           ELSE /\ resp' = IF run_id \in DOMAIN runs
                           THEN Response("get_tasks", 200, "list", 0)
                           ELSE Response("get_tasks", 404, "run is not found", 0)
                /\ UNCHANGED store
        /\ UNCHANGED <<now, pool>>

\* The rows db.session.commit() inserts for the new tasks of batch, in order,
\* each with the next value of the id sequence.
NewTasks(run_id, batch) ==
    [id \in (task_seq + 1)..(task_seq + Len(batch)) |->
        Task_load(batch[id - task_seq], run_id)]

\* The values of the id sequence a commit of n new tasks draws: all n, or up
\* to the first that is a row's id already (the insert fails there).
Drawn(n) ==
    LET taken == {k \in 1..n : task_seq + k \in DOMAIN tasks}
    IN  IF taken = {} THEN n ELSE CHOOSE k \in taken : \A j \in taken : k <= j

\* The add-and-commit of post_task and post_tasks.
AddTasks(op, run_id, batch, ok) ==
    IF \E i \in 1..Len(batch) : ~Has(batch[i], "name")
    THEN /\ Raise(op, "KeyError")
         /\ UNCHANGED store
    ELSE /\ task_seq' = task_seq + Drawn(Len(batch))
         /\ UNCHANGED <<runs, run_seq>>
         /\ IF \E k \in 1..Len(batch) : task_seq + k \in DOMAIN tasks
            THEN /\ Raise(op, "IntegrityError")
                 /\ UNCHANGED tasks
            ELSE /\ tasks' = NewTasks(run_id, batch) @@ tasks
                 /\ resp' = ok

\* POST /api/run/<run_id>/task
post_task(cred, fetch, run_id, data) ==
    LET a == auth(cred, fetch)
    IN  /\ task_seq < MaxTaskId
        /\ Gate(a)
        /\ IF ~a.pass THEN Reject("post_task", a)
           ELSE IF run_id \notin DOMAIN runs
                THEN /\ resp' = Response("post_task", 404, "run is not found", 0)
                     /\ UNCHANGED store
           ELSE AddTasks("post_task", run_id, <<data>>,
                         Response("post_task", 200, "digest", task_seq + 1))
        /\ UNCHANGED <<now, pool>>

\* POST /api/run/<run_id>/tasks
post_tasks(cred, fetch, run_id, batch) ==
    LET a == auth(cred, fetch)
    IN  /\ task_seq + Len(batch) <= MaxTaskId
        /\ Gate(a)
        /\ IF ~a.pass THEN Reject("post_tasks", a)
           ELSE IF run_id \notin DOMAIN runs
                THEN /\ resp' = Response("post_tasks", 404, "run is not found", 0)
                     /\ UNCHANGED store
           ELSE AddTasks("post_tasks", run_id, batch,
                         Response("post_tasks", 200, "success", Len(batch)))
        /\ UNCHANGED <<now, pool>>

\* GET /api/task/<task_id>
get_task(cred, fetch, task_id) ==
    LET a == auth(cred, fetch)
    IN  /\ Gate(a)
        /\ IF ~a.pass THEN Reject("get_task", a)
           ELSE /\ resp' = IF task_id \in DOMAIN tasks
                           THEN Response("get_task", 200, "digest", task_id)
                           ELSE Response("get_task", 404, "task is not found", 0)
                /\ UNCHANGED store
        /\ UNCHANGED <<now, pool>>

\* (A commit against a table without the foreign key.)
CommitsNoForeignKey(task_id, self) ==
    self.id.n = task_id \/ self.id.n \notin DOMAIN tasks

\* db.session.commit() of a patched task: the UPDATE is refused when the new
\* id is another row's id or the new run_id is no run's id (payloads give
\* numbers for both).
Commits(task_id, self) ==
    /\ self.id.n = task_id \/ self.id.n \notin DOMAIN tasks
    /\ self.run_id.n \in DOMAIN runs

\* PATCH /api/task/<task_id>
patch_task(cred, fetch, task_id, data) ==
    LET a == auth(cred, fetch)
    IN  /\ Gate(a)
        /\ IF ~a.pass THEN Reject("patch_task", a)
           ELSE IF task_id \notin DOMAIN tasks
                THEN /\ resp' = Response("patch_task", 404, "task is not found", 0)
                     /\ UNCHANGED store
           ELSE LET self == Task_patch(TaskObject(task_id), data)
                IN  IF Commits(task_id, self)
                    THEN /\ tasks' = (self.id.n :> TaskRow(self))
                                       @@ Without(tasks, {task_id})
                         /\ IF self.digest = Method
                            THEN resp' = Response("patch_task", 200, "digest", self.id.n)
                            ELSE Raise("patch_task", "TypeError")
                         /\ UNCHANGED <<runs, run_seq, task_seq>>
                    ELSE /\ Raise("patch_task", "IntegrityError")
                         /\ UNCHANGED store
        /\ UNCHANGED <<now, pool>>

-----------------------------------------------------------------------------
\* The checkout coordinator: POST /run/<run_id>/checkout. Its handler is not
\* among the sources; it is modelled from the specification (4.3): one
\* indivisible select-and-transition, lowest id first.

\* (A filter that also takes the tasks already handed out.)
InitializedOrScheduled(run_id) ==
    {t \in TasksOf(run_id) : tasks[t].status \in {Str("initialized"), Str("scheduled")}}

\* The tasks of a run that are available.
Initialized(run_id) ==
    {t \in TasksOf(run_id) : tasks[t].status = Str("initialized")}

\* (A selection that takes the newest task first.)
NextTaskHighest(ids) == CHOOSE t \in ids : \A u \in ids : t >= u

\* The selection policy: the lowest id of a non-empty set of task ids.
NextTask(ids) == CHOOSE t \in ids : \A u \in ids : t <= u

\* (A transition that marks every available task of the run.)
ClaimAll(t) ==
    [u \in DOMAIN tasks |->
        IF tasks[u].run_id = tasks[t].run_id /\ tasks[u].status = Str("initialized")
        THEN [tasks[u] EXCEPT !.status = Str("scheduled")] ELSE tasks[u]]

\* The transition: the task table with task t scheduled.
Claim(t) == [tasks EXCEPT ![t].status = Str("scheduled")]

\* (Exhaustion answered as the 404 of a query that found no row.)
ExhaustedNotFound == Response("checkout", 404, "task is not found", 0)

\* The terminal result: no task is available.
Exhausted == Response("checkout", 204, "", 0)

Call(run_id, r) == [run_id |-> run_id, code |-> r.code, id |-> r.id]

checkout(cred, fetch, run_id) ==
    LET a == auth(cred, fetch)
        t == NextTask(Initialized(run_id))
        answer(r) == /\ resp' = r
                     /\ calls' = Append(calls, Call(run_id, r))
    IN  /\ Gate(a)
        /\ IF ~a.pass
           THEN /\ Reject("checkout", a)
                /\ calls' = Append(calls, Call(run_id, resp'))
           ELSE IF run_id \notin DOMAIN runs
                THEN /\ answer(Response("checkout", 404, "run is not found", 0))
                     /\ UNCHANGED store
           ELSE IF Initialized(run_id) = {}
                THEN /\ answer(Exhausted)
                     /\ UNCHANGED store
           ELSE /\ tasks' = Claim(t)
                /\ answer(Response("checkout", 200, "digest", t))
                /\ UNCHANGED <<runs, run_seq, task_seq>>
        /\ UNCHANGED now

-----------------------------------------------------------------------------
\* The worker loop of test_parallel.py (checkout_task), one thread per worker.
\* A worker presents the internal key.

Workers == 1..NumWorkers

\* The call log is kept up to this length: every task taken once, one
\* exhaustion for each worker, and the other clients' calls.
MaxLog == MaxPoolTasks + NumWorkers + MaxCalls

\* resp = requests.post(.../run/{run_id}/checkout)
WorkerPost(w) ==
    /\ pc[w] = "post"
    /\ Len(calls) < MaxLog
    /\ checkout(InternalCred, NoFetch, RunUnderTest)
    /\ held' = [held EXCEPT ![w] = resp']
    /\ pc' = [pc EXCEPT ![w] = "check"]
    /\ UNCHANGED tasks0

\* (A loop that does not end on 204.)
WorkerCheckNoBreak(w) ==
    /\ pc[w] = "check"
    /\ IF held[w].code >= 400 THEN pc' = [pc EXCEPT ![w] = "raised"]
       ELSE pc' = [pc EXCEPT ![w] = "post"]
    /\ UNCHANGED <<store, resp, cache, now, held, calls, tasks0>>

\* resp.raise_for_status(); print(resp.json()['id']); break on 204. An error
\* status raises; a 204 ends the loop (by the break, or before it by
\* resp.json() raising on a body that is no JSON); a 200 loops.
WorkerCheck(w) ==
    /\ pc[w] = "check"
    /\ IF held[w].code >= 400 THEN pc' = [pc EXCEPT ![w] = "raised"]
       ELSE IF held[w].code = 204
            THEN \E end \in {"raised", "done"} : pc' = [pc EXCEPT ![w] = end]
       ELSE pc' = [pc EXCEPT ![w] = "post"]
    /\ UNCHANGED <<store, resp, cache, now, held, calls, tasks0>>

Worker(w) == WorkerPost(w) \/ WorkerCheck(w)

Stopped(w) == pc[w] \in {"raised", "done"}

\* Time passes.
Tick ==
    /\ now + TickHours <= MaxNow
    /\ now' = now + TickHours
    /\ UNCHANGED <<store, resp, cache, pool>>

-----------------------------------------------------------------------------
\* Inputs.

\* Every payload of at most maxlen of the given pairs, in every order, no key
\* twice.
Payloads(pairs, maxlen) ==
    UNION {{p \in [1..n -> pairs] :
               \A i, j \in 1..n : i # j => p[i].key # p[j].key} : n \in 0..maxlen}

RunIds == 1..MaxRunId
TaskIds == 1..MaxTaskId

\* The identity provider is asked only by a token request that finds the
\* cache stale.
FetchesFor(cred) ==
    IF cred.present /\ cred.raw # INTERNAL_COMMUNICATION_KEY /\ cred.hdr = "ok" /\ RefreshDue
    THEN Fetches ELSE {NoFetch}

ValidRunPayloads ==
    {<<Pair("name", Str("r")), Pair("details", Dict("details_new")),
       Pair("settings", Dict("k1"))>>,
     <<Pair("details", Dict("details_new")), Pair("settings", Str("abc"))>>}

RunPayloads ==
    ValidRunPayloads
    \cup {<<Pair("name", Str("r"))>>}
    \cup {<<Pair("details", Dict(d))>> :
            d \in {"details_old", "details_nocreator", "details_noclient"}}

ValidTaskPayloads ==
    {<<Pair("name", Str("t"))>>,
     <<Pair("name", Str("t")), Pair("status", Str("ignored")),
       Pair("settings", Dict("k1"))>>}

TaskPayloads == ValidTaskPayloads \cup {<<Pair("annotation", Str("a"))>>}

\* The requests of the store specification carry the internal key and these
\* payloads.
StoreCreds == {InternalCred}

StoreRuns ==
    {<<Pair("name", Str("r")), Pair("details", Dict("details_new")),
       Pair("settings", Dict("k1"))>>,
     <<Pair("name", Str("r"))>>}

StoreUpdates == {<<Pair("status", Str("Running")), Pair("settings", Str("abc"))>>}

StoreTasks == {<<Pair("name", Str("t"))>>, <<Pair("annotation", Str("a"))>>}

StoreBatches == UNION {[1..n -> StoreTasks] : n \in 0..MaxBatch}

StorePatches ==
    {<<Pair("run_id", Num(r))>> : r \in RunIds}
    \cup {<<Pair("immutable_properties", List("[]")), Pair("run_id", Num(r))>> : r \in RunIds}
    \cup {<<Pair("immutable_properties", List("[]")), Pair("id", Num(k))>> : k \in TaskIds}

-----------------------------------------------------------------------------
\* The store: runs and tasks are created, read, updated, patched and deleted.

NoWorkers == [w \in {} |-> ""]

Init ==
    /\ runs = <<>>
    /\ tasks = <<>>
    /\ run_seq = 0
    /\ task_seq = 0
    /\ resp = NoResponse
    /\ certs = {}
    /\ last_update = DatetimeMin
    /\ now = 0
    /\ pc = NoWorkers
    /\ held = NoWorkers
    /\ calls = <<>>
    /\ tasks0 = <<>>

Next ==
    \E cred \in StoreCreds : \E fetch \in FetchesFor(cred) :
        \/ get_runs(cred, fetch)
        \/ \E data \in StoreRuns : post_run(cred, fetch, data)
        \/ \E run_id \in RunIds, data \in StoreUpdates : update_run(cred, fetch, run_id, data)
        \/ \E run_id \in RunIds : get_run(cred, fetch, run_id)
        \/ \E run_id \in RunIds : delete_run(cred, fetch, run_id)
        \/ \E run_id \in RunIds : get_tasks(cred, fetch, run_id)
        \/ \E run_id \in RunIds, data \in StoreTasks : post_task(cred, fetch, run_id, data)
        \/ \E run_id \in RunIds, batch \in StoreBatches : post_tasks(cred, fetch, run_id, batch)
        \/ \E task_id \in TaskIds : get_task(cred, fetch, task_id)
        \/ \E task_id \in TaskIds, data \in StorePatches : patch_task(cred, fetch, task_id, data)

Spec == Init /\ [][Next]_vars

-----------------------------------------------------------------------------
\* Run.update on its own: two runs exist, as post_run made them, and run 1 is
\* updated with every payload of the pairs below while time passes.

UpdatePairs ==
    {Pair("name", Str("r2")), Pair("owner", Str("o")), Pair("details", Dict("k1")),
     Pair("status", Str("Running")), Pair("settings", Str("zzz")),
     Pair("creation", Num(9)), Pair("id", Num(2))}

RunUpdates == Payloads(UpdatePairs, MaxPatchLen)

\* Run 1 is updated, run 2 stands by, run 3 does not exist.
UpdateTargets == {1, 3}

\* A table of two runs, made by post_run at hour 0.
RunsMade(p) ==
    (1 :> Run_create(p)) @@ (2 :> Run_create(<<Pair("details", Dict("details_new"))>>))

TwoRuns == {RunsMade(p) : p \in ValidRunPayloads}

InitRun ==
    /\ now = 0
    /\ runs \in TwoRuns
    /\ tasks = <<>>
    /\ run_seq = 2
    /\ task_seq = 0
    /\ resp = NoResponse
    /\ certs = {}
    /\ last_update = DatetimeMin
    /\ pc = NoWorkers
    /\ held = NoWorkers
    /\ calls = <<>>
    /\ tasks0 = <<>>

NextRun ==
    \/ \E run_id \in UpdateTargets, data \in RunUpdates :
           update_run(InternalCred, NoFetch, run_id, data)
    \/ \E run_id \in UpdateTargets : get_run(InternalCred, NoFetch, run_id)
    \/ Tick

SpecRun == InitRun /\ [][NextRun]_vars

-----------------------------------------------------------------------------
\* Task.patch on its own: task 1 of run 1 and task 2 of run 2 exist, as
\* post_task made them; task 1 (task 3, once a patch has moved it there) is
\* patched with every payload of the pairs below; task 2 stands by.

PatchPairs ==
    {Pair("name", Str("x")), Pair("id", Num(3)), Pair("annotation", Str("x")),
     Pair("run_id", Num(2)), Pair("settings", Str("abc")),
     Pair("status", Str("completed")), Pair("status", Str("initialized")),
     Pair("result", Str("passed")), Pair("result_details", Dict("k1")),
     Pair("immutable_properties", List("[]")), Pair("bogus", Str("x")),
     Pair("digest", Str("x"))}

TaskPatches == Payloads(PatchPairs, MaxPatchLen)

PatchTargets == {1, 3}

InitPatch ==
    /\ now = 0
    /\ runs = RunsMade(<<Pair("details", Dict("details_new")), Pair("settings", Str("abc"))>>)
    /\ tasks \in {(1 :> Task_load(p, 1)) @@ (2 :> Task_load(<<Pair("name", Str("u"))>>, 2)) :
                    p \in ValidTaskPayloads}
    /\ run_seq = 2
    /\ task_seq = 2
    /\ resp = NoResponse
    /\ certs = {}
    /\ last_update = DatetimeMin
    /\ pc = NoWorkers
    /\ held = NoWorkers
    /\ calls = <<>>
    /\ tasks0 = <<>>

NextPatch ==
    \/ \E task_id \in PatchTargets, data \in TaskPatches :
           patch_task(InternalCred, NoFetch, task_id, data)
    \/ \E task_id \in PatchTargets : get_task(InternalCred, NoFetch, task_id)

SpecPatch == InitPatch /\ [][NextPatch]_vars

-----------------------------------------------------------------------------
\* test_parallel.py: NumWorkers threads run checkout_task on one run while
\* other clients call checkout too. When the threads start the table holds
\* MaxPoolTasks tasks, of that run and of another, in any status; no task is
\* created or patched while they run.

OtherRun == RunUnderTest + 1
MissingRun == RunUnderTest + 2

PoolStatuses == {"initialized", "scheduled"}

PoolTasks ==
    [1..MaxPoolTasks ->
        {[Task_load(<<Pair("name", Str("t"))>>, RunUnderTest)
            EXCEPT !.status = Str(st)] : st \in PoolStatuses}
        \cup {Task_load(<<Pair("name", Str("t"))>>, OtherRun)}]

InitCheckout ==
    /\ now = 0
    /\ runs = (RunUnderTest :> Run_create(<<Pair("details", Dict("details_new"))>>))
                @@ (OtherRun :> Run_create(<<Pair("details", Dict("details_new"))>>))
    /\ tasks \in PoolTasks
    /\ run_seq = OtherRun
    /\ task_seq = MaxPoolTasks
    /\ resp = NoResponse
    /\ certs = {}
    /\ last_update = DatetimeMin
    /\ pc = [w \in Workers |-> "post"]
    /\ held = [w \in Workers |-> NoResponse]
    /\ calls = <<>>
    /\ tasks0 = tasks

\* Another client's checkout call.
ClientCheckout(run_id) ==
    /\ Len(calls) < MaxCalls
    /\ checkout(InternalCred, NoFetch, run_id)
    /\ UNCHANGED <<pc, held, tasks0>>

NextCheckout ==
    \/ \E w \in Workers : WorkerPost(w)
    \/ \E w \in Workers : WorkerCheck(w)
    \/ \E run_id \in {RunUnderTest, OtherRun, MissingRun} : ClientCheckout(run_id)

SpecCheckout == InitCheckout /\ [][NextCheckout]_vars

\* The pool runs every thread that can take a step.
SpecCheckoutFair == SpecCheckout /\ \A w \in Workers : WF_vars(Worker(w))

-----------------------------------------------------------------------------
\* The auth wrapper: every protected route is requested with every kind of
\* Authorization header, on run 1 and task 1.

AuthRun == <<Pair("name", Str("r")), Pair("details", Dict("details_new"))>>
AuthUpdate == <<Pair("status", Str("Running"))>>
AuthTask == <<Pair("name", Str("t"))>>
AuthPatch == <<Pair("status", Str("completed"))>>

\* One request with the given header.
Request(cred, fetch) ==
    \/ get_runs(cred, fetch)
    \/ post_run(cred, fetch, AuthRun)
    \/ update_run(cred, fetch, 1, AuthUpdate)
    \/ get_run(cred, fetch, 1)
    \/ delete_run(cred, fetch, 1)
    \/ get_tasks(cred, fetch, 1)
    \/ post_task(cred, fetch, 1, AuthTask)
    \/ post_tasks(cred, fetch, 1, <<AuthTask>>)
    \/ get_task(cred, fetch, 1)
    \/ patch_task(cred, fetch, 1, AuthPatch)

NextAuth ==
    \E cred \in Credentials : \E fetch \in FetchesFor(cred) : Request(cred, fetch)

SpecAuth == Init /\ [][NextAuth]_vars

-----------------------------------------------------------------------------
\* Runs are created from every kind of payload, read and deleted.

CreatePayloads ==
    RunPayloads
    \cup {<<Pair("details", Dict("details_v1")), Pair("settings", Dict("k1"))>>,
          <<Pair("settings", Str("abc"))>>}

NextCreate ==
    \/ \E data \in CreatePayloads : post_run(InternalCred, NoFetch, data)
    \/ \E run_id \in RunIds : get_run(InternalCred, NoFetch, run_id)
    \/ \E run_id \in RunIds : delete_run(InternalCred, NoFetch, run_id)
    \/ Tick

SpecCreate == Init /\ [][NextCreate]_vars

-----------------------------------------------------------------------------
\* Tasks are created, one by one and in batches, and patched, with payloads
\* that name a status or a result, among them values outside the lists the
\* column comments give.

TaskStatuses == {Str("initialized"), Str("scheduled"), Str("completed"), Str("ignored")}

TaskResults == {Str("passed"), Str("failed"), Str("error"), Null}

ValuePairs ==
    {Pair("status", Str("ignored")), Pair("status", Str("completed")),
     Pair("status", Str("paused")), Pair("result", Str("passed")),
     Pair("result", Str("skipped"))}

ValueTasks == {<<Pair("name", Str("t"))>>}
              \cup {<<Pair("name", Str("t")), v>> : v \in ValuePairs}

ValuePatches == {<<v>> : v \in ValuePairs}
                \cup {<<Pair("status", Str("completed")), Pair("result", Str("failed"))>>}

ValueBatches == UNION {[1..n -> ValueTasks] : n \in 2..MaxBatch}

InitTasks ==
    /\ now = 0
    /\ runs = RunsMade(<<Pair("details", Dict("details_new"))>>)
    /\ tasks = <<>>
    /\ run_seq = 2
    /\ task_seq = 0
    /\ resp = NoResponse
    /\ certs = {}
    /\ last_update = DatetimeMin
    /\ pc = NoWorkers
    /\ held = NoWorkers
    /\ calls = <<>>
    /\ tasks0 = <<>>

NextTasks ==
    \/ \E data \in ValueTasks : post_task(InternalCred, NoFetch, 1, data)
    \/ \E batch \in ValueBatches : post_tasks(InternalCred, NoFetch, 1, batch)
    \/ \E task_id \in TaskIds, data \in ValuePatches :
           patch_task(InternalCred, NoFetch, task_id, data)
    \/ \E task_id \in TaskIds : get_task(InternalCred, NoFetch, task_id)

SpecTasks == InitTasks /\ [][NextTasks]_vars

-----------------------------------------------------------------------------
\* The opaque fields: a run and a task are made with values of every kind in
\* settings, details and result_details, then updated, patched and read.

OpaqueValues == {Dict("k1"), Str("abc"), Str("5"), List("['status']"), Null}

InitOpaque ==
    /\ now = 0
    /\ runs \in {(1 :> Run_create(<<Pair("details", d), Pair("settings", v)>>)) :
                    d \in {Dict("details_new"), Dict("details_v1")},
                    v \in OpaqueValues}
    /\ tasks \in {(1 :> Task_load(<<Pair("name", Str("t")), Pair("settings", v),
                                    Pair("result_details", d)>>, 1)) :
                    v \in OpaqueValues, d \in OpaqueValues}
    /\ run_seq = 1
    /\ task_seq = 1
    /\ resp = NoResponse
    /\ certs = {}
    /\ last_update = DatetimeMin
    /\ pc = NoWorkers
    /\ held = NoWorkers
    /\ calls = <<>>
    /\ tasks0 = <<>>

NextOpaque ==
    \/ \E v \in OpaqueValues :
           update_run(InternalCred, NoFetch, 1, <<Pair("details", v)>>)
    \/ \E v \in OpaqueValues :
           patch_task(InternalCred, NoFetch, 1, <<Pair("result_details", v)>>)
    \/ get_run(InternalCred, NoFetch, 1)
    \/ get_task(InternalCred, NoFetch, 1)

SpecOpaque == InitOpaque /\ [][NextOpaque]_vars

-----------------------------------------------------------------------------
\* Tasks of a run are patched from any status to any status, as the reset
\* loop of test_parallel.py does with 'initialized', and checked out.

ResetPatches == {<<Pair("status", st)>> : st \in TaskStatuses}

InitReset ==
    /\ now = 0
    /\ runs = RunsMade(<<Pair("details", Dict("details_new"))>>)
    /\ \E st \in TaskStatuses :
           tasks = [t \in TaskIds |->
                      [Task_load(<<Pair("name", Str("t"))>>, 1)
                          EXCEPT !.status = IF t = 1 THEN st ELSE Str("initialized")]]
    /\ run_seq = 2
    /\ task_seq = MaxTaskId
    /\ resp = NoResponse
    /\ certs = {}
    /\ last_update = DatetimeMin
    /\ pc = NoWorkers
    /\ held = NoWorkers
    /\ calls = <<>>
    /\ tasks0 = tasks

\* A checkout of run 1 between the patches.
ResetCheckout ==
    /\ Len(calls) <= MaxCalls
    /\ checkout(InternalCred, NoFetch, 1)
    /\ UNCHANGED <<pc, held, tasks0>>

NextReset ==
    \/ \E task_id \in TaskIds, data \in ResetPatches :
           patch_task(InternalCred, NoFetch, task_id, data)
    \/ ResetCheckout

SpecReset == InitReset /\ [][NextReset]_vars

-----------------------------------------------------------------------------
\* get_public_key statement by statement, as the threads of the server run
\* it on the one jwt_auth object. pc is a thread's position in the call and
\* held its local state: the key id looked up, whether _refresh_certs found
\* the refresh due, the calls made to the identity provider, the keys of the
\* response not yet stored, and how the call ended.

Threads == 1..MaxThreads

Lookup(key_id, due, fetches, keys, end) ==
    [key_id |-> key_id, due |-> due, fetches |-> fetches, keys |-> keys, end |-> end]

NoLookup == Lookup("none", FALSE, 0, {}, "")

\* The key id every response of the identity provider holds.
StableKid == "kidA"

\* What the identity provider answers while the threads run.
RefreshFetches == {f \in Fetches : f.ok => StableKid \in f.keys}

\* get_public_key(key_id) is called, and _refresh_certs tests the elapsed
\* time.
RefreshCheck(w, key_id) ==
    /\ pc[w] = "idle"
    /\ IF RefreshDue
       THEN /\ pc' = [pc EXCEPT ![w] = "clear"]
            /\ held' = [held EXCEPT ![w] = Lookup(key_id, TRUE, 0, {}, "")]
       ELSE /\ pc' = [pc EXCEPT ![w] = "read"]
            /\ held' = [held EXCEPT ![w] = Lookup(key_id, FALSE, 0, {}, "")]
    /\ UNCHANGED <<store, resp, cache, now, calls, tasks0>>

\* _update_certs: self._certs.clear()
CertsClear(w) ==
    /\ pc[w] = "clear"
    /\ certs' = {}
    /\ pc' = [pc EXCEPT ![w] = "get"]
    /\ UNCHANGED <<store, resp, last_update, now, held, calls, tasks0>>

\* (A call that stamps the clock when the provider does not answer.)
CertsGetStamps(w, fetch) ==
    /\ pc[w] = "get"
    /\ IF fetch.ok
       THEN /\ pc' = [pc EXCEPT ![w] = "fill"]
            /\ held' = [held EXCEPT ![w].fetches = @ + 1, ![w].keys = fetch.keys]
            /\ UNCHANGED cache
       ELSE /\ pc' = [pc EXCEPT ![w] = "idle"]
            /\ held' = [held EXCEPT ![w].fetches = @ + 1,
                                    ![w].end = "RequestException"]
            /\ last_update' = now
            /\ UNCHANGED certs
    /\ UNCHANGED <<store, resp, now, calls, tasks0>>

\* _update_certs: requests.get(self._jwks_uri); a failed call raises.
CertsGet(w, fetch) ==
    /\ pc[w] = "get"
    /\ IF fetch.ok
       THEN /\ pc' = [pc EXCEPT ![w] = "fill"]
            /\ held' = [held EXCEPT ![w].fetches = @ + 1, ![w].keys = fetch.keys]
       ELSE /\ pc' = [pc EXCEPT ![w] = "idle"]
            /\ held' = [held EXCEPT ![w].fetches = @ + 1,
                                    ![w].end = "RequestException"]
    /\ UNCHANGED <<store, resp, cache, now, calls, tasks0>>

\* Key ids of the identity provider whose x5c entry is not a certificate:
\* load_pem_x509_certificate raises on it.
BadCerts == {"kidBad"}

\* _update_certs: one turn of the loop over the keys of the response.
CertsFill(w) ==
    /\ pc[w] = "fill"
    /\ IF held[w].keys = {}
       THEN /\ pc' = [pc EXCEPT ![w] = "stamp"]
            /\ UNCHANGED <<certs, held>>
       ELSE \E k \in held[w].keys :
                IF k \in BadCerts
                THEN /\ pc' = [pc EXCEPT ![w] = "idle"]
                     /\ held' = [held EXCEPT ![w].end = "ValueError"]
                     /\ UNCHANGED certs
                ELSE /\ certs' = certs \cup {k}
                     /\ held' = [held EXCEPT ![w].keys = @ \ {k}]
                     /\ UNCHANGED pc
    /\ UNCHANGED <<store, resp, last_update, now, calls, tasks0>>

\* _refresh_certs: self._last_update = datetime.utcnow()
RefreshStamp(w) ==
    /\ pc[w] = "stamp"
    /\ last_update' = now
    /\ pc' = [pc EXCEPT ![w] = "read"]
    /\ UNCHANGED <<store, resp, certs, now, held, calls, tasks0>>

\* get_public_key: return self._certs[key_id]
CertsRead(w) ==
    /\ pc[w] = "read"
    /\ held' = [held EXCEPT ![w].end =
                    IF held[w].key_id \in certs THEN "key" ELSE "KeyError"]
    /\ pc' = [pc EXCEPT ![w] = "idle"]
    /\ UNCHANGED <<store, resp, cache, now, calls, tasks0>>

\* A request that presents the internal key while the threads run.
InternalRequest == get_runs(InternalCred, NoFetch)

InitRefresh ==
    /\ runs = <<>>
    /\ tasks = <<>>
    /\ run_seq = 0
    /\ task_seq = 0
    /\ resp = NoResponse
    /\ certs = {}
    /\ last_update = DatetimeMin
    /\ now = 0
    /\ pc = [w \in Threads |-> "idle"]
    /\ held = [w \in Threads |-> NoLookup]
    /\ calls = <<>>
    /\ tasks0 = <<>>

NextRefresh ==
    \/ \E w \in Threads, key_id \in Kids : RefreshCheck(w, key_id)
    \/ \E w \in Threads : CertsClear(w)
    \/ \E w \in Threads, fetch \in RefreshFetches : CertsGet(w, fetch)
    \/ \E w \in Threads : CertsFill(w)
    \/ \E w \in Threads : RefreshStamp(w)
    \/ \E w \in Threads : CertsRead(w)
    \/ InternalRequest
    \/ Tick

SpecRefresh == InitRefresh /\ [][NextRefresh]_vars

-----------------------------------------------------------------------------
\* get_public_key called again and again by one thread, while the identity
\* provider answers with key sets some of whose certificates do not parse, or
\* does not answer.

Caller == 1

RetryFetches == {[ok |-> TRUE, keys |-> K] : K \in SUBSET (Kids \cup BadCerts)}
                \cup {NoFetch}

NextRetry ==
    \/ \E key_id \in Kids : RefreshCheck(Caller, key_id)
    \/ CertsClear(Caller)
    \/ \E fetch \in RetryFetches : CertsGet(Caller, fetch)
    \/ CertsFill(Caller)
    \/ RefreshStamp(Caller)
    \/ CertsRead(Caller)
    \/ Tick

SpecRetry == InitRefresh /\ [][NextRetry]_vars

-----------------------------------------------------------------------------
\* Properties of the checkout operation and of the worker pool.

\* The positions in the call log of the calls on a run that got a result code.
Served(run_id, code) ==
    {i \in 1..Len(calls) : calls[i].run_id = run_id /\ calls[i].code = code}

\* The tasks of a run that were available before the first call.
Claimable0(run_id) ==
    {t \in DOMAIN tasks0 : /\ tasks0[t].run_id = run_id
                           /\ tasks0[t].status = Str("initialized")}

AllStopped == \A w \in Workers : Stopped(w)

\* The last entry of the call log after a step that made a call.
Called == Len(calls') = Len(calls) + 1
LastCall == calls'[Len(calls')]

\* C1: concurrent checkouts never hand the same task to two callers; each
\* call on an existing run either returns a task that was available or reports
\* exhaustion; and once the N workers have stopped, exactly M calls returned a
\* task, M being the number of tasks available at the start, all calls after
\* them reporting exhaustion.
C1_CheckoutExclusive ==
    /\ \A i, j \in 1..Len(calls) :
         (i < j /\ calls[i].code = 200 /\ calls[j].code = 200)
            => calls[i].id # calls[j].id
    /\ \A r \in {RunUnderTest, OtherRun} :
         /\ {calls[i].id : i \in Served(r, 200)} \subseteq Claimable0(r)
         /\ \A i \in 1..Len(calls) :
              calls[i].run_id = r => calls[i].code \in {200, 204}
    /\ AllStopped =>
         /\ Cardinality(Served(RunUnderTest, 200))
              = Cardinality(Claimable0(RunUnderTest))
         /\ Cardinality(Served(RunUnderTest, 204)) >= 1
         /\ \A i \in Served(RunUnderTest, 204), j \in Served(RunUnderTest, 200) :
              j < i

\* Every worker has stopped, two tasks were available, and two different
\* workers each got one of them.
C1_Witness ==
    /\ AllStopped
    /\ Cardinality(Claimable0(RunUnderTest)) = 2
    /\ Cardinality(Served(RunUnderTest, 200)) = 2
    /\ Cardinality(Served(RunUnderTest, 204)) = NumWorkers

C3_CheckoutTransition ==
    [][(Called /\ LastCall.code = 200) =>
        /\ LastCall.id \in DOMAIN tasks
        /\ tasks[LastCall.id].status = Str("initialized")
        /\ tasks' = [tasks EXCEPT ![LastCall.id].status = Str("scheduled")]
        /\ resp'.id = LastCall.id
        /\ UNCHANGED <<runs, run_seq, task_seq>>]_vars

\* A task has just been returned while another task of the same run is
\* still available.
C3_Witness ==
    /\ resp.op = "checkout" /\ resp.code = 200
    /\ tasks[resp.id].status = Str("scheduled")
    /\ \E u \in DOMAIN tasks : /\ u # resp.id
                               /\ tasks[u].run_id = tasks[resp.id].run_id
                               /\ tasks[u].status = Str("initialized")

\* C4: a checkout on a run that does not exist answers 404, a checkout on a
\* run without an available task answers 204, both leaving the store as it
\* was, and a checkout on a run with an available task answers 200.
C4_CheckoutOutcomes ==
    [][Called =>
        LET run_id == LastCall.run_id
            free == {u \in DOMAIN tasks : /\ tasks[u].run_id = run_id
                                          /\ tasks[u].status = Str("initialized")}
        IN  /\ run_id \notin DOMAIN runs
                 => (LastCall.code = 404 /\ UNCHANGED store)
            /\ (run_id \in DOMAIN runs /\ free = {})
                 => (LastCall.code = 204 /\ UNCHANGED store)
            /\ (run_id \in DOMAIN runs /\ free # {})
                 => LastCall.code = 200
            /\ resp'.code = LastCall.code]_vars

\* The call log holds a not-found, a success and an exhaustion.
C4_Witness ==
    /\ \E i \in 1..Len(calls) : calls[i].code = 404
    /\ Served(RunUnderTest, 200) # {}
    /\ Served(RunUnderTest, 204) # {}

\* C5: every worker of the pool stops, and when all have stopped no task of
\* the run under test is available.
C5_WorkersTerminate ==
    /\ <>AllStopped
    /\ [](AllStopped =>
            \A t \in DOMAIN tasks :
                tasks[t].run_id = RunUnderTest
                    => tasks[t].status # Str("initialized"))

\* Every worker has stopped after the pool took all three tasks.
C5_Witness ==
    /\ AllStopped
    /\ Cardinality(Claimable0(RunUnderTest)) = 3
    /\ \A t \in Claimable0(RunUnderTest) : tasks[t].status = Str("scheduled")

-----------------------------------------------------------------------------
\* Properties of Task.patch.

\* C6: whatever the patch payload, a task's id, name, annotation and run_id
\* after the patch equal their values before it.
C6_ImmutableKept ==
    [][\A t \in DOMAIN tasks :
          /\ t \in DOMAIN tasks'
          /\ tasks'[t].name = tasks[t].name
          /\ tasks'[t].annotation = tasks[t].annotation
          /\ tasks'[t].run_id = tasks[t].run_id]_vars

\* C7: whatever the patch payload, a task's settings after the patch equal
\* their value before it.
C7_SettingsFrozen ==
    [][\A t \in DOMAIN tasks \cap DOMAIN tasks' :
          tasks'[t].settings = tasks[t].settings]_vars

-----------------------------------------------------------------------------
\* Properties of Run.update.

MutableRunFields == {"name", "owner", "details", "status"}

\* C8: an update keeps every run's id, settings and creation, whatever the
\* payload, and keeps each of name, owner, details and status that the
\* payload does not hold.
C8_RunUpdateFrame ==
    /\ [][/\ DOMAIN runs' = DOMAIN runs
           /\ \A r \in DOMAIN runs :
                /\ runs'[r].settings = runs[r].settings
                /\ runs'[r].creation = runs[r].creation]_vars
    /\ [](\A r \in DOMAIN runs, data \in RunUpdates :
            LET updated == Run_update(runs[r], data)
            IN  /\ updated.settings = runs[r].settings
                /\ updated.creation = runs[r].creation
                /\ \A k \in MutableRunFields :
                     ~Has(data, k) => updated[k] = runs[r][k])

\* Run 1 was updated hours after it was made: its name is the payload's, and
\* its settings and creation are those of the run made at hour 0.
C8_Witness ==
    /\ resp.op = "update_run" /\ resp.code = 200
    /\ now > 0
    /\ runs[1].name = Str("r2")
    /\ runs[1].status = Str("Running")
    /\ \E p \in ValidRunPayloads :
         /\ runs[1].settings = Run_create(p).settings
         /\ runs[1].creation = 0

-----------------------------------------------------------------------------
\* Properties of the store.

\* C9: every stored task belongs to an existing run; deleting a run removes
\* exactly its tasks; and a task that is not stored is reported not found.
C9_ReferentialIntegrity ==
    /\ [](\A t \in DOMAIN tasks : tasks[t].run_id \in DOMAIN runs)
    /\ [][(resp'.op = "delete_run" /\ resp'.body = "removed") =>
            \E r \in DOMAIN runs :
                /\ r \notin DOMAIN runs'
                /\ DOMAIN tasks' = {t \in DOMAIN tasks : tasks[t].run_id # r}
                /\ \A t \in DOMAIN tasks' : tasks'[t] = tasks[t]]_vars
    /\ [][\A t \in TaskIds :
            (t \notin DOMAIN tasks /\ get_task(InternalCred, NoFetch, t))
                => resp'.code = 404]_vars

\* A run with a task has just been deleted while a task of another run stays.
C9_Witness ==
    /\ resp.op = "delete_run" /\ resp.body = "removed"
    /\ Cardinality(DOMAIN tasks) = 1
    /\ task_seq = 2
    /\ \A t \in DOMAIN tasks : tasks[t].run_id \in DOMAIN runs

-----------------------------------------------------------------------------
\* Properties of the auth wrapper.

\* The credential is the internal key, or a token that verifies against a
\* key the manager holds after the request's refresh.
Authentic(cred, fetch) ==
    /\ cred.present
    /\ \/ cred.raw = INTERNAL_COMMUNICATION_KEY
       \/ /\ cred.hdr = "ok"
          /\ cred.verdict = "valid"
          /\ cred.kid \in auth(cred, fetch).certs

\* C10: a request whose credential is neither the internal key nor a
\* verified token is answered 401 and leaves the store as it was (stated for
\* the requests during which the identity provider answers).
C10_AuthGate ==
    [][\A cred \in Credentials : \A fetch \in FetchesFor(cred) :
          (/\ Request(cred, fetch)
           /\ ~Authentic(cred, fetch)
           /\ auth(cred, fetch).error # "RequestException")
              => (resp'.code = 401 /\ UNCHANGED store)]_vars

-----------------------------------------------------------------------------
\* Properties of the internal-key path and of the key cache.

\* C11: a request that presents the internal key is let through whatever the
\* cache holds and whatever the threads inside get_public_key are doing, and
\* the wrapper leaves the key set and the refresh clock as they were (the
\* steps that move no thread and not the clock are those requests).
C11_InternalKeyPath ==
    /\ [](\A fetch \in Fetches :
            LET a == auth(InternalCred, fetch)
            IN  /\ a.pass
                /\ a.certs = certs
                /\ a.last_update = last_update)
    /\ [][UNCHANGED <<pc, held, now>> =>
            /\ resp'.op = "get_runs"
            /\ resp'.code = 200
            /\ UNCHANGED cache]_vars

\* The internal key was let through, and a thread has cleared a key set
\* that had been stored and is waiting for the identity provider.
C11_Witness ==
    /\ resp.op = "get_runs" /\ resp.code = 200
    /\ last_update # DatetimeMin
    /\ now - last_update >= RefreshHours
    /\ certs = {}
    /\ \E w \in Threads : pc[w] = "get"

\* Why a header fails, in the terms of the four reported conditions; "none"
\* for a header that does not fail or fails for another reason.
Cause(cred, fetch) ==
    IF ~cred.present THEN "missing"
    ELSE IF cred.raw = INTERNAL_COMMUNICATION_KEY THEN "none"
    ELSE IF cred.hdr \in {"badb64", "badutf8", "badjson"} THEN "malformed"
    ELSE IF cred.hdr # "ok" THEN "none"
    ELSE LET k == get_public_key(cred.kid, fetch).end
         IN  CASE k = "KeyError" -> "invalid"
               [] k = "key" /\ cred.verdict = "invalid" -> "invalid"
               [] k = "key" /\ cred.verdict = "expired" -> "expired"
               [] OTHER -> "none"

\* C12: a failed authentication is answered 400 when the header cannot be
\* decoded and 401 when it is missing, expired or invalid, and two failures
\* with different causes are never reported alike.
C12_DistinctFailures ==
    \A cred \in Credentials : \A fetch \in FetchesFor(cred) :
        Cause(cred, fetch) # "none" =>
            LET a == auth(cred, fetch)
            IN  /\ ~a.pass
                /\ a.code = IF Cause(cred, fetch) = "malformed" THEN 400 ELSE 401
                /\ \A cred2 \in Credentials : \A fetch2 \in FetchesFor(cred2) :
                     Cause(cred2, fetch2) \notin {"none", Cause(cred, fetch)}
                        => auth(cred2, fetch2).error # a.error

\* C13: a lookup asks the identity provider exactly when 12 hours or more
\* have passed since the last refresh, which is so for the first lookup; a
\* lookup that finds less leaves the key set and the refresh clock alone; no
\* lookup asks more than once, and a key id that is not in the key set ends
\* the lookup with KeyError and no further call.
C13_RefreshPolicy ==
    /\ [](/\ last_update = DatetimeMin => RefreshDue
          /\ \A w \in Threads :
                /\ held[w].fetches <= 1
                /\ pc[w] \in {"clear", "get", "fill", "stamp"} => held[w].due
                /\ pc[w] \in {"fill", "stamp"} => held[w].fetches = 1
                /\ (pc[w] \in {"read", "idle"} /\ held[w].key_id # "none")
                      => held[w].fetches = IF held[w].due THEN 1 ELSE 0
          /\ \A key_id \in Kids, fetch \in Fetches :
                LET r == get_public_key(key_id, fetch)
                IN  IF now - last_update >= RefreshHours
                    THEN fetch.ok => (r.certs = fetch.keys /\ r.last_update = now)
                    ELSE /\ r.certs = certs /\ r.last_update = last_update
                         /\ r.end = IF key_id \in certs THEN "key" ELSE "KeyError")
    /\ [][\A w \in Threads :
            /\ (pc[w] = "idle" /\ pc'[w] # "idle") =>
                  /\ (pc'[w] = "clear") = (now - last_update >= RefreshHours)
                  /\ (pc'[w] = "read") = (now - last_update < RefreshHours)
            /\ (pc'[w] # pc[w] /\ ~held'[w].due) => UNCHANGED cache
            /\ (pc[w] = "read" /\ pc'[w] # "read" /\ held[w].key_id \notin certs) =>
                  /\ held'[w].end = "KeyError"
                  /\ held'[w].fetches = held[w].fetches
                  /\ pc'[w] = "idle"
                  /\ UNCHANGED cache]_vars

\* Twelve hours after a refresh one thread has fetched the key set and found
\* its key, and then another has looked up a key id that the set does not
\* hold: it made no call and ended with KeyError.
C13_Witness ==
    /\ now - last_update < RefreshHours
    /\ now >= RefreshHours
    /\ \E w1, w2 \in Threads :
         /\ pc[w1] = "idle" /\ pc[w2] = "idle"
         /\ held[w1].due /\ held[w1].fetches = 1 /\ held[w1].end = "key"
         /\ ~held[w2].due /\ held[w2].fetches = 0 /\ held[w2].end = "KeyError"

\* C14: a lookup of a key id that every key set of the identity provider
\* holds never ends with KeyError, whatever the other threads are doing to
\* the cache.
C14_NoTornKeySet ==
    [][\A w \in Threads :
          (pc[w] = "read" /\ pc'[w] = "idle" /\ held[w].key_id = StableKid)
              => held'[w].end = "key"]_vars

-----------------------------------------------------------------------------
\* Properties of run creation.

\* A version as one number.
Weight(v) == v[1] * 10000 + v[2] * 100 + v[3]

\* The payload fails one of the four checks of run creation.
Refused(data) ==
    \/ ~Has(data, "details")
    \/ "a01.reserved.creator" \notin DictKeys(Get(data, "details").s)
    \/ "a01.reserved.client" \notin DictKeys(Get(data, "details").s)
    \/ Weight(ClientVersion(Get(data, "details").s)) < Weight(<<0, 15, 0>>)

\* The text a settings value is stored as.
Stored(data) ==
    IF ~Has(data, "settings") THEN Null
    ELSE IF Get(data, "settings").t = "dict"
         THEN Str(json_dumps(Get(data, "settings")))
         ELSE Get(data, "settings")

\* C15: a create-run request that fails one of the four checks is answered
\* 400 and stores nothing; one that passes them is answered 200 and stores
\* exactly one new run, under an id never issued before, whose settings are
\* the payload's.
C15_RunCreationGate ==
    [][\A data \in CreatePayloads :
          post_run(InternalCred, NoFetch, data) =>
              IF Refused(data)
              THEN resp'.code = 400 /\ UNCHANGED store
              ELSE /\ resp'.code = 200
                   /\ resp'.id > run_seq
                   /\ resp'.id \notin DOMAIN runs
                   /\ DOMAIN runs' = DOMAIN runs \cup {resp'.id}
                   /\ \A r \in DOMAIN runs : runs'[r] = runs[r]
                   /\ runs'[resp'.id].settings = Stored(data)
                   /\ runs'[resp'.id].creation = now
                   /\ UNCHANGED tasks]_vars

\* A run was made after another had been deleted, from a payload of a
\* client at version 1.0.0, hours after the start.
C15_Witness ==
    /\ resp.op = "post_run" /\ resp.code = 200
    /\ resp.id = 2
    /\ DOMAIN runs = {2}
    /\ runs[2].settings = Str("{\"k\": 1}")
    /\ runs[2].details = Str(json_dumps(Dict("details_v1")))
    /\ runs[2].creation > 0

-----------------------------------------------------------------------------
\* Properties of the values of a task.

Given(data, key, had) == IF Has(data, key) THEN Get(data, key) ELSE had

-----------------------------------------------------------------------------
\* Properties of what a patch leaves alone.

\* The keys of a payload.
Keys(data) == {data[i].key : i \in 1..Len(data)}

\* The columns of a task's row.
RowColumns == TaskColumns \ {"id"}

\* C17: a patch of an existing task leaves every field the payload does not
\* name as it was, succeeds without any change when the payload names no
\* field of a task, and leaves every other task and every run as they were.
C17_PatchFrame ==
    [][resp'.op = "patch_task" =>
        \A task_id \in PatchTargets \cap DOMAIN tasks, data \in TaskPatches :
            patch_task(InternalCred, NoFetch, task_id, data) =>
                /\ "id" \notin Keys(data) =>
                      /\ task_id \in DOMAIN tasks'
                      /\ \A f \in RowColumns \ Keys(data) :
                            tasks'[task_id][f] = tasks[task_id][f]
                /\ Keys(data) \cap TaskColumns = {} =>
                      (resp'.code = 200 /\ UNCHANGED store)
                /\ \A t \in DOMAIN tasks \ {task_id} :
                      t \in DOMAIN tasks' /\ tasks'[t] = tasks[t]
                /\ runs' = runs]_vars

-----------------------------------------------------------------------------
\* Properties of requests that name a run or a task that is not stored.

AbsentRuns == RunIds \ DOMAIN runs
AbsentTasks == TaskIds \ DOMAIN tasks

NotFound == resp'.code = 404 /\ UNCHANGED store

\* C18: reading or updating a run that is not stored, listing or creating
\* tasks under it, and reading or patching a task that is not stored are
\* answered 404 and change nothing; deleting a run that is not stored is
\* answered 200 'no action' and changes nothing.
C18_AbsentEntities ==
    [][/\ resp'.op = "get_run" =>
            \A run_id \in AbsentRuns :
                get_run(InternalCred, NoFetch, run_id) => NotFound
       /\ resp'.op = "update_run" =>
            \A run_id \in AbsentRuns, data \in StoreUpdates :
                update_run(InternalCred, NoFetch, run_id, data) => NotFound
       /\ resp'.op = "get_tasks" =>
            \A run_id \in AbsentRuns :
                get_tasks(InternalCred, NoFetch, run_id) => NotFound
       /\ resp'.op = "post_task" =>
            \A run_id \in AbsentRuns, data \in StoreTasks :
                post_task(InternalCred, NoFetch, run_id, data) => NotFound
       /\ resp'.op = "post_tasks" =>
            \A run_id \in AbsentRuns, batch \in StoreBatches :
                post_tasks(InternalCred, NoFetch, run_id, batch) => NotFound
       /\ resp'.op = "get_task" =>
            \A task_id \in AbsentTasks :
                get_task(InternalCred, NoFetch, task_id) => NotFound
       /\ resp'.op = "patch_task" =>
            \A task_id \in AbsentTasks, data \in StorePatches :
                patch_task(InternalCred, NoFetch, task_id, data) => NotFound
       /\ resp'.op = "delete_run" =>
            \A run_id \in AbsentRuns :
                delete_run(InternalCred, NoFetch, run_id) =>
                    /\ resp'.code = 200
                    /\ resp'.body = "no action"
                    /\ UNCHANGED store]_vars

\* A run that had been deleted was deleted again while another run and its
\* task are stored.
C18_Witness ==
    /\ resp.op = "delete_run" /\ resp.body = "no action"
    /\ run_seq = 2
    /\ Cardinality(DOMAIN runs) = 1
    /\ tasks # <<>>

-----------------------------------------------------------------------------
\* Properties of the opaque fields.

\* What a reader gets for a value that was submitted.
ReadBack(v) == _unify_json_output(_unify_json_input(v))

\* The value is a string that json.loads does not accept.
NotJson(v) == v.t = "str" /\ ~json_loads(v.s).ok

\* A value comes back as the claim says: a dictionary as an equal
\* dictionary, a string that is not JSON as that string.
Returned(v, out) ==
    /\ v.t = "dict" => out = v
    /\ NotJson(v) => out = v

\* C19: a dictionary submitted for settings, details or result_details is
\* read back as an equal dictionary, and a string that is not JSON as the
\* same string; every stored run and task has a digest.
C19_OpaqueRoundTrip ==
    /\ [](/\ \A v \in OpaqueValues : Returned(v, ReadBack(v))
          /\ \A r \in DOMAIN runs : \A v \in OpaqueValues :
                /\ runs[r].settings = _unify_json_input(v)
                      => Returned(v, Run_digest(r, runs[r]).settings)
                /\ runs[r].details = _unify_json_input(v)
                      => Returned(v, Run_digest(r, runs[r]).details)
          /\ \A t \in DOMAIN tasks : \A v \in OpaqueValues :
                /\ tasks[t].settings = _unify_json_input(v)
                      => Returned(v, Task_digest(t, tasks[t]).settings)
                /\ tasks[t].result_details = _unify_json_input(v)
                      => Returned(v, Task_digest(t, tasks[t]).result_details))
    /\ [][/\ (resp'.op = "update_run" /\ resp'.code = 200) =>
               \A v \in OpaqueValues :
                   update_run(InternalCred, NoFetch, 1, <<Pair("details", v)>>)
                       => Returned(v, Run_digest(1, runs'[1]).details)
          /\ (resp'.op = "patch_task" /\ resp'.code = 200) =>
               \A v \in OpaqueValues :
                   patch_task(InternalCred, NoFetch, 1, <<Pair("result_details", v)>>)
                       => Returned(v, Task_digest(1, tasks'[1]).result_details)]_vars

\* The run was made with a dictionary for settings and updated with a string
\* that is not JSON for details, the task was made with such a string for
\* settings and patched with a dictionary for result_details, and the task
\* was then read: each comes back as it was submitted.
C19_Witness ==
    /\ resp.op = "get_task" /\ resp.code = 200
    /\ Run_digest(1, runs[1]).settings = Dict("k1")
    /\ runs[1].settings = Str("{\"k\": 1}")
    /\ Run_digest(1, runs[1]).details = Str("abc")
    /\ Task_digest(1, tasks[1]).settings = Str("abc")
    /\ Task_digest(1, tasks[1]).result_details = Dict("k1")

-----------------------------------------------------------------------------
\* Properties of the reset of a task.

\* The tasks of run 1 a checkout may return.
Eligible == {t \in DOMAIN tasks : tasks[t].run_id = 1 /\ tasks[t].status = Str("initialized")}

\* C20: a patch that names a status is answered 200 and sets that status,
\* whatever the status was; after a patch to 'initialized' the task is among
\* those a checkout of its run returns, and a checkout returns the first of
\* them.
C20_ResetForReassignment ==
    [][/\ resp'.op = "patch_task" =>
            \A task_id \in TaskIds \cap {resp'.id}, data \in ResetPatches :
                patch_task(InternalCred, NoFetch, task_id, data) =>
                    /\ resp'.code = 200
                    /\ tasks'[task_id].status = data[1].value
                    /\ \A f \in RowColumns \ {"status"} :
                          tasks'[task_id][f] = tasks[task_id][f]
                    /\ data[1].value = Str("initialized") => task_id \in Eligible'
       /\ Called =>
            IF Eligible = {} THEN LastCall.code = 204
            ELSE /\ LastCall.code = 200
                 /\ LastCall.id \in Eligible
                 /\ \A t \in Eligible : LastCall.id <= t
                 /\ tasks'[LastCall.id].status = Str("scheduled")]_vars

\* Task 1 was completed at the start, was returned by a checkout, and was
\* returned by a second checkout as well: it had been reset twice.
C20_Witness ==
    /\ tasks0[1].status = Str("completed")
    /\ Len(calls) = 2
    /\ calls[1].code = 200 /\ calls[1].id = 1
    /\ calls[2].code = 200 /\ calls[2].id = 1
    /\ tasks[1].status = Str("scheduled")

-----------------------------------------------------------------------------
\* Properties of a refresh that fails.

\* The call of get_public_key ended in an exception of _update_certs.
RefreshFailed == pc[Caller] = "idle" /\ held[Caller].end \in {"RequestException", "ValueError"}

\* C21: _last_update changes only in the assignment that follows a fetch and
\* a loop over its keys that both ended without an exception, and it is set
\* to the time of that moment; a fetch or a certificate that fails leaves it
\* alone, so a refresh is still due and the next get_public_key clears and
\* fetches again; what the cache held before the refresh is cleared before
\* the fetch, so after the failure the cache is empty (no answer) or holds
\* only those keys of the new response stored before the one that failed.
C21_FailedRefreshRetried ==
    /\ [][/\ last_update' # last_update =>
                /\ pc[Caller] = "stamp" /\ pc'[Caller] = "read"
                /\ held[Caller].due /\ held[Caller].fetches = 1
                /\ held[Caller].keys = {} /\ held[Caller].end = ""
                /\ last_update' = now
          /\ (RefreshFailed' /\ ~RefreshFailed) =>
                /\ pc[Caller] \in {"get", "fill"}
                /\ UNCHANGED last_update
          /\ (RefreshFailed /\ pc'[Caller] # "idle") => pc'[Caller] = "clear"
          /\ (pc[Caller] = "clear" /\ pc'[Caller] # "clear") =>
                certs' = {} /\ pc'[Caller] = "get"
          /\ (pc[Caller] = "fill" /\ certs' # certs) =>
                \E k \in held[Caller].keys \ BadCerts :
                    /\ certs' = certs \cup {k}
                    /\ held'[Caller].keys = held[Caller].keys \ {k}]_vars
    /\ [](RefreshFailed =>
            /\ RefreshDue
            /\ held[Caller].end = "RequestException" => certs = {}
            /\ held[Caller].end = "ValueError" =>
                  /\ certs \cap held[Caller].keys = {}
                  /\ held[Caller].keys \cap BadCerts # {})

\* A refresh succeeded at the start and the keys were served for hours; the
\* refresh that came due then stored one key and failed on a certificate, and
\* the clock still shows the first refresh.
C21_Witness ==
    /\ RefreshFailed
    /\ held[Caller].end = "ValueError"
    /\ last_update = 0
    /\ now >= RefreshHours
    /\ certs = {"kidB"}
    /\ held[Caller].keys = {"kidA"} \cup BadCerts

=============================================================================
